---- MODULE Spec2Model ----
(***************************************************************************)
(* Verification model of the iGOT Assessment Quality Score evaluator:      *)
(*   - the checkpoint store (checkpoint_manager.py),                       *)
(*   - a course run, evaluate_single_course (main.py),                     *)
(*   - one assessment evaluation, evaluate_assessment (aqs_evaluator.py),  *)
(*   - the composite score, _compute_final_aqs (aqs_evaluator.py),         *)
(*   - the quality tier and the cost of a call (aqs_evaluator.py),         *)
(*   - the course loader, load_course (data_loader.py),                    *)
(*   - a batch run over models and courses (main.py).                      *)
(*                                                                         *)
(* Strings that the code rewrites character by character (model names and  *)
(* course ids, which become file names) are sequences of one-character     *)
(* strings.  Floating-point scores are exact rationals with a fixed        *)
(* denominator.                                                            *)
(***************************************************************************)
EXTENDS Integers, Sequences, FiniteSets, TLC

VARIABLES
    files,                  \* checkpoint directory: path -> file content
    \* ---- the checkpoint store driven directly (SpecStore)
    lastOp,                 \* the last store operation and what it returned
    cleared,                \* keys cleared and not saved since
    \* ---- one process running evaluate_single_course (Spec)
    pc,                     \* position of the process in evaluate_single_course
    course_data,            \* what load_course returns for the course
    force_restart,          \* the run's force_restart argument
    checkpoint,             \* the value load_checkpoint returned to the run
    completed_assessments,  \* the run's in-memory list of completed names
    i,                      \* index of the assessment the loop is at
    all_results,            \* names of the results collected by the run
    failed_evaluations,     \* course_metrics["failed_evaluations"]
    result_files,           \* names whose per-assessment result JSON exists
    called,                 \* indices the Analysis Service was called for in this run
    skipped,                \* indices skipped as already completed in this run
    savedInRun,             \* the run has completed a save_checkpoint
    returned,               \* assessments (indices) whose call has returned successfully
    returnedAgain,          \* assessments whose call has returned successfully twice
    forcedEver,             \* some run so far was started with force_restart
    \* ---- one call of _compute_final_aqs (SpecScore)
    score_in,               \* the arguments of the call
    aqs_score,              \* the value returned, in hundredths
    \* ---- one call of evaluate_assessment (SpecEval)
    epc,                    \* position in evaluate_assessment
    ev_in,                  \* the assessment, the course context and the configuration
    service_calls,          \* calls of the Analysis Service made so far
    call_out,               \* what _call_llm returned
    result,                 \* the AQSResult returned, with its metrics
    \* ---- one call of a function without side effects (SpecTier, SpecCombine, SpecCost)
    fn_in,                  \* the arguments of the call
    fn_out,                 \* the value returned
    \* ---- one AssessmentDataLoader (SpecLoad)
    data_dir,               \* course id -> what the course directory holds
    loader_warnings,        \* self.warnings of the loader
    loads,                  \* calls of load_course made so far
    load_ret,               \* the last call of load_course and its outcome
    \* ---- a batch run over models and courses (SpecBatch)
    batch,                  \* the models, the sorted courses, the assessments per course
    bpc,                    \* position of the batch
    model_idx,              \* index of the model the batch is at
    course_idx,             \* index of the course the batch is at
    assess_idx,             \* index of the assessment the course loop is at
    called_courses,         \* <<model, course>> pairs evaluate_single_course was called for
    visited,                \* assessments of the current course the loop has reached
    raised_first,           \* where the first exception of the batch was raised, if any
    \* ---- what a course run measures and writes out (Spec)
    course_metrics,         \* the run's course_metrics totals
    result_json,            \* name -> the metrics in that name's result JSON file
    combined_file           \* what the run has written to all_assessments_aqs.json

storeVars == <<lastOp, cleared>>
scoreVars == <<score_in, aqs_score>>
evalVars == <<epc, ev_in, service_calls, call_out, result>>
fnVars == <<fn_in, fn_out>>
loadVars == <<data_dir, loader_warnings, loads, load_ret>>
batchVars == <<batch, bpc, model_idx, course_idx, assess_idx, called_courses, visited, raised_first>>
metricVars == <<course_metrics, result_json, combined_file>>
auxVars == <<fnVars, loadVars, batchVars, metricVars>>
runVars == <<pc, course_data, force_restart, checkpoint, completed_assessments,
             i, all_results, failed_evaluations, result_files, called, skipped,
             savedInRun, returned, returnedAgain, forcedEver>>

Range(s) == {s[n] : n \in DOMAIN s}

(***************************************************************************)
(* Checkpoint store                                                        *)
(***************************************************************************)

\* Model names and course ids used as keys.
ModelNames == {<<"a", "/", "b">>, <<"a", "_", "b">>}
CourseIds == {<<"c">>, <<"d">>}
Keys == ModelNames \X CourseIds

\* Assessment names.
AssessmentNames == {"A", "B"}

\* str.replace(old, new) for a one-character old and new.
replace(s, old, new) == [n \in DOMAIN s |-> IF s[n] = old THEN new ELSE s[n]]

_get_checkpoint_path(model_name, course_id) ==
    LET safe_model == replace(replace(model_name, "/", "_"), ":", "_")
        safe_course == replace(course_id, "/", "_")
    IN  safe_model \o <<"_">> \o safe_course \o <<"_checkpoint.json">>

Paths == {_get_checkpoint_path(k[1], k[2]) : k \in Keys}

\* File contents: a file json.load cannot parse, a file that parses to
\* something that is not a JSON object, a file the process may not open
\* (open() raises IOError for reading and for writing), and a record.
Absent == [kind |-> "absent"]
NotJson == [kind |-> "notjson"]
NonObject == [kind |-> "nonobject"]
Unreadable == [kind |-> "unreadable"]
ForeignContents == {NotJson, NonObject, Unreadable}

None == [kind |-> "none"]

\* The outcome of a call: the value returned, or an exception that escaped.
Returns(v) == [raised |-> FALSE, value |-> v]
Raises == [raised |-> TRUE, value |-> None]

load_checkpoint(fs, model_name, course_id) ==
    LET f == fs[_get_checkpoint_path(model_name, course_id)]
    IN  IF f.kind = "absent" THEN Returns(None)
        ELSE IF f.kind = "unreadable" THEN Returns(None)      \* IOError, caught
        ELSE IF f.kind = "notjson" THEN Returns(None)         \* JSONDecodeError, caught
        ELSE IF f.kind = "nonobject" THEN Raises              \* .get on a non-dict
        ELSE IF f.model_name # model_name \/ f.course_id # course_id
             THEN Returns(None)
        ELSE Returns(f)

checkpoint_data(model_name, course_id, total_assessments, completed) ==
    [kind |-> "record",
     model_name |-> model_name,
     course_id |-> course_id,
     total_assessments |-> total_assessments,
     completed_assessments |-> completed,
     completed_count |-> Len(completed),
     status |-> IF Len(completed) >= total_assessments
                THEN "completed" ELSE "in_progress"]

\* open(path, 'w'): the file exists and is empty until the dump is flushed;
\* the IOError of a file that may not be opened is caught by save_checkpoint.
open_w(fs, model_name, course_id) ==
    LET p == _get_checkpoint_path(model_name, course_id)
    IN  IF fs[p].kind = "unreadable" THEN fs ELSE [fs EXCEPT ![p] = NotJson]

save_checkpoint(fs, model_name, course_id, total_assessments, completed) ==
    LET p == _get_checkpoint_path(model_name, course_id)
    IN  IF fs[p].kind = "unreadable" THEN fs
        ELSE [fs EXCEPT ![p] = checkpoint_data(model_name, course_id,
                                               total_assessments, completed)]

clear_checkpoint_keeps(fs, model_name, course_id) == fs

clear_checkpoint(fs, model_name, course_id) ==
    LET p == _get_checkpoint_path(model_name, course_id)
    IN  IF fs[p].kind # "absent" THEN [fs EXCEPT ![p] = Absent] ELSE fs

get_completed_assessments_empty(ck) == <<>>

get_completed_assessments(ck) ==
    IF ck = None THEN <<>> ELSE ck.completed_assessments

(***************************************************************************)
(* SpecStore: the three store operations called in any order on any key,   *)
(* over a directory whose files at first hold anything.  The file system   *)
(* itself is reliable: an unlink and a write of an openable file succeed.  *)
(***************************************************************************)

MaxCompleted == 1
MaxTotal == 2

SeqsUpTo(S, n) == UNION {[1..m -> S] : m \in 0..n}

CompletedLists == SeqsUpTo(AssessmentNames, MaxCompleted)

RunModel == <<"a", "/", "b">>
RunCourse == <<"c">>
RunPath == _get_checkpoint_path(RunModel, RunCourse)

NoCourseData == [loaded |-> FALSE, assessments |-> <<>>]

RunIdle ==
    /\ pc = "idle"
    /\ course_data = NoCourseData
    /\ force_restart = FALSE
    /\ checkpoint = None
    /\ completed_assessments = <<>>
    /\ i = 0
    /\ all_results = <<>>
    /\ failed_evaluations = 0
    /\ result_files = {}
    /\ called = {}
    /\ skipped = {}
    /\ savedInRun = FALSE
    /\ returned = {}
    /\ returnedAgain = {}
    /\ forcedEver = FALSE

StoreIdle ==
    /\ files = [p \in Paths |-> Absent]
    /\ lastOp = [op |-> "none", key |-> <<RunModel, RunCourse>>,
                 before |-> "none", result |-> Returns(None)]
    /\ cleared = {}

ScoreIdle ==
    /\ score_in = None
    /\ aqs_score = -1

EvalIdle ==
    /\ epc = "idle"
    /\ ev_in = None
    /\ service_calls = 0
    /\ call_out = None
    /\ result = None

FnIdle ==
    /\ fn_in = None
    /\ fn_out = None

LoadIdle ==
    /\ data_dir = None
    /\ loader_warnings = <<>>
    /\ loads = 0
    /\ load_ret = None

BatchIdle ==
    /\ batch = None
    /\ bpc = "idle"
    /\ model_idx = 0
    /\ course_idx = 0
    /\ assess_idx = 0
    /\ called_courses = {}
    /\ visited = {}
    /\ raised_first = {}

\* main.py lines 343-364: the totals a run starts from
CourseMetrics0 ==
    [total_assessments |-> 0, successful_evaluations |-> 0, total_tokens |-> 0,
     total_llm_calls |-> 0, successful_llm_calls |-> 0, failed_llm_calls |-> 0,
     assessment_metrics |-> <<>>]

MetricIdle ==
    /\ course_metrics = CourseMetrics0
    /\ result_json = <<>>
    /\ combined_file = None

AuxIdle == FnIdle /\ LoadIdle /\ BatchIdle /\ MetricIdle

\* What a load returned, without the record: "raised", "none" or "checkpoint".
Outcome(r) ==
    IF r.raised THEN "raised" ELSE IF r.value = None THEN "none" ELSE "checkpoint"

StoreInit ==
    /\ files \in [Paths -> {Absent} \cup ForeignContents]
    /\ ScoreIdle
    /\ EvalIdle
    /\ AuxIdle
    /\ lastOp = [op |-> "none", key |-> <<RunModel, RunCourse>>,
                 before |-> "none", result |-> Returns(None)]
    /\ cleared = {}
    /\ RunIdle

SaveCheckpoint(k, total, completed) ==
    /\ files' = save_checkpoint(files, k[1], k[2], total, completed)
    /\ lastOp' = [op |-> "save", key |-> k,
                  before |-> Outcome(load_checkpoint(files, k[1], k[2])),
                  result |-> Returns(None)]
    /\ cleared' = cleared \ {k}
    /\ UNCHANGED <<runVars, scoreVars, evalVars, auxVars>>

ClearCheckpoint(k) ==
    /\ files' = clear_checkpoint(files, k[1], k[2])
    /\ lastOp' = [op |-> "clear", key |-> k,
                  before |-> Outcome(load_checkpoint(files, k[1], k[2])),
                  result |-> Returns(None)]
    /\ cleared' = cleared \cup {k}
    /\ UNCHANGED <<runVars, scoreVars, evalVars, auxVars>>

LoadCheckpoint(k) ==
    /\ lastOp' = [op |-> "load", key |-> k,
                  before |-> Outcome(load_checkpoint(files, k[1], k[2])),
                  result |-> load_checkpoint(files, k[1], k[2])]
    /\ UNCHANGED <<files, cleared>>
    /\ UNCHANGED <<runVars, scoreVars, evalVars, auxVars>>

StoreNext ==
    \/ \E k \in Keys, total \in 1..MaxTotal, completed \in CompletedLists :
          SaveCheckpoint(k, total, completed)
    \/ \E k \in Keys : ClearCheckpoint(k)
    \/ \E k \in Keys : LoadCheckpoint(k)

vars == <<files, lastOp, cleared, pc, course_data, force_restart, checkpoint,
          completed_assessments, i, all_results, failed_evaluations,
          result_files, called, skipped, savedInRun, returned, returnedAgain,
          forcedEver, score_in, aqs_score, epc, ev_in, service_calls, call_out,
          result, fn_in, fn_out, data_dir, loader_warnings, loads, load_ret,
          batch, bpc, model_idx, course_idx, assess_idx, called_courses, visited,
          raised_first, course_metrics, result_json, combined_file>>

SpecStore == StoreInit /\ [][StoreNext]_vars

\* C5: save_checkpoint or clear_checkpoint on one key leaves the value
\* load_checkpoint returns for every other key unchanged.
C5_OtherKeysUnaffected ==
    [][lastOp'.op \in {"save", "clear"} =>
          \A k \in Keys \ {lastOp'.key} :
              load_checkpoint(files, k[1], k[2]).raised = FALSE =>
                  load_checkpoint(files', k[1], k[2]) = load_checkpoint(files, k[1], k[2])]_vars

C7_LoadNeverRaises ==
    lastOp.op = "load" =>
        LET f == files[_get_checkpoint_path(lastOp.key[1], lastOp.key[2])]
        IN  /\ lastOp.result.raised = FALSE
            /\ (\/ f.kind # "record"
                \/ f.model_name # lastOp.key[1]
                \/ f.course_id # lastOp.key[2]) => lastOp.result = Returns(None)

(***************************************************************************)
(* Spec: one process at a time runs evaluate_single_course for the key     *)
(* (RunModel, RunCourse); it may crash between any two steps and be        *)
(* started again, with or without force_restart.                           *)
(***************************************************************************)

MaxAssessments == 3

\* What load_course can return: nothing, or a course with its assessment
\* names in order (names may repeat, and the list may be empty).
Courses == {NoCourseData} \cup
    {[loaded |-> TRUE, assessments |-> a] : a \in SeqsUpTo(AssessmentNames, MaxAssessments)}

Stopped == {"idle", "returned", "aborted", "crashed", "done"}
Running == {"loading", "loop", "evaluated", "written", "saving", "summary", "clearing"}

assessments == course_data.assessments

\* main.py line 371: assessment.name in completed_assessments
is_skipped_never(name, completed) == FALSE

is_skipped(name, completed) == name \in Range(completed)

\* Tokens the Analysis Service may report for one successful call.
CallTokens == {40, 70}

\* The metrics of the result evaluate_assessment returns: one call, counted
\* as successful or failed; a failed call reports no tokens.
result_metrics(outcome, tokens) ==
    IF outcome = "ok"
    THEN [total_tokens |-> tokens, llm_calls |-> 1, successful_calls |-> 1, failed_calls |-> 0]
    ELSE [total_tokens |-> 0, llm_calls |-> 1, successful_calls |-> 0, failed_calls |-> 1]

\* main.py lines 382-396: a result's metrics are added to the course totals
aggregate(totals, metrics) ==
    [totals EXCEPT !.successful_evaluations = @ + 1,
                   !.total_tokens = @ + metrics.total_tokens,
                   !.total_llm_calls = @ + metrics.llm_calls,
                   !.successful_llm_calls = @ + metrics.successful_calls,
                   !.failed_llm_calls = @ + metrics.failed_calls,
                   !.assessment_metrics = Append(@, metrics)]

\* main.py lines 490-508: the record written to all_assessments_aqs.json
combined_data(results, totals) ==
    [total_assessments |-> Len(results),
     assessments |-> results,
     total_tokens |-> totals.total_tokens,
     total_llm_calls |-> totals.total_llm_calls]

Init ==
    /\ files \in {[p \in Paths |-> IF p = RunPath THEN f ELSE Absent] :
                     f \in {Absent} \cup ForeignContents}
    /\ lastOp = [op |-> "none", key |-> <<RunModel, RunCourse>>,
                 before |-> "none", result |-> Returns(None)]
    /\ cleared = {}
    /\ ScoreIdle
    /\ EvalIdle
    /\ AuxIdle
    /\ pc = "idle"
    /\ course_data \in Courses
    /\ force_restart = FALSE
    /\ checkpoint = None
    /\ completed_assessments = <<>>
    /\ i = 0
    /\ all_results = <<>>
    /\ failed_evaluations = 0
    /\ result_files = {}
    /\ called = {}
    /\ skipped = {}
    /\ savedInRun = FALSE
    /\ returned = {}
    /\ returnedAgain = {}
    /\ forcedEver = FALSE

\* A process is started: python main.py ... [--force-restart]
StartRun(force) ==
    /\ pc \in Stopped
    /\ pc' = "loading"
    /\ force_restart' = force
    /\ forcedEver' = (forcedEver \/ force)
    /\ checkpoint' = None
    /\ completed_assessments' = <<>>
    /\ i' = 0
    /\ all_results' = <<>>
    /\ failed_evaluations' = 0
    /\ called' = {}
    /\ skipped' = {}
    /\ savedInRun' = FALSE
    /\ course_metrics' = CourseMetrics0
    /\ combined_file' = None
    /\ UNCHANGED <<files, course_data, result_files, returned, returnedAgain,
                   result_json>>
    /\ UNCHANGED <<storeVars, scoreVars, evalVars, fnVars, loadVars, batchVars>>

\* lines 304-308: the course could not be loaded
CourseNotLoaded ==
    /\ pc = "loading"
    /\ ~course_data.loaded
    /\ pc' = "returned"
    /\ UNCHANGED <<files, course_data, force_restart, checkpoint, completed_assessments,
                   i, all_results, failed_evaluations, result_files, called, skipped,
                   savedInRun, returned, returnedAgain, forcedEver>>
    /\ UNCHANGED <<storeVars, scoreVars, evalVars, auxVars>>

\* lines 318-320: the course has no assessments
NoAssessments ==
    /\ pc = "loading"
    /\ course_data.loaded
    /\ assessments = <<>>
    /\ pc' = "returned"
    /\ UNCHANGED <<files, course_data, force_restart, checkpoint, completed_assessments,
                   i, all_results, failed_evaluations, result_files, called, skipped,
                   savedInRun, returned, returnedAgain, forcedEver>>
    /\ UNCHANGED <<storeVars, scoreVars, evalVars, auxVars>>

\* lines 329-341: load the checkpoint unless force_restart; an exception of
\* load_checkpoint is not caught in evaluate_single_course.
LoadStep ==
    /\ pc = "loading"
    /\ course_data.loaded
    /\ assessments # <<>>
    /\ LET r == IF force_restart THEN Returns(None)
                ELSE load_checkpoint(files, RunModel, RunCourse)
       IN  IF r.raised
           THEN /\ pc' = "aborted"
                /\ UNCHANGED <<files, checkpoint, completed_assessments, i,
                               course_metrics>>
           ELSE /\ checkpoint' = r.value
                /\ course_metrics' = [CourseMetrics0 EXCEPT
                                         !.total_assessments = Len(assessments)]
                /\ completed_assessments' = get_completed_assessments(r.value)
                /\ files' = IF force_restart /\ r.value # None
                            THEN clear_checkpoint(files, RunModel, RunCourse)
                            ELSE files
                /\ i' = 1
                /\ pc' = "loop"
    /\ UNCHANGED <<course_data, force_restart, all_results, failed_evaluations,
                   result_files, called, skipped, savedInRun, returned,
                   returnedAgain, forcedEver, result_json, combined_file>>
    /\ UNCHANGED <<storeVars, scoreVars, evalVars, fnVars, loadVars, batchVars>>

\* lines 371-373: the assessment is already completed
Skip ==
    /\ pc = "loop"
    /\ i <= Len(assessments)
    /\ is_skipped(assessments[i], completed_assessments)
    /\ skipped' = skipped \cup {i}
    /\ i' = i + 1
    /\ UNCHANGED <<files, pc, course_data, force_restart, checkpoint,
                   completed_assessments, all_results, failed_evaluations,
                   result_files, called, savedInRun, returned, returnedAgain,
                   forcedEver>>
    /\ UNCHANGED <<storeVars, scoreVars, evalVars, auxVars>>

\* The Analysis Service call for an assessment has returned successfully.
NoteReturned(j) ==
    /\ returned' = returned \cup {j}
    /\ returnedAgain' = IF j \in returned THEN returnedAgain \cup {j}
                        ELSE returnedAgain

\* lines 379-423: evaluate_assessment returns a result.  The one Analysis
\* Service call inside it either returned ("ok") or failed and was turned
\* into a warning of the result ("call_failed").
Evaluate(outcome) ==
    /\ pc = "loop"
    /\ i <= Len(assessments)
    /\ ~is_skipped(assessments[i], completed_assessments)
    /\ called' = called \cup {i}
    /\ IF outcome = "ok" THEN NoteReturned(i)
                         ELSE UNCHANGED <<returned, returnedAgain>>
    /\ all_results' = Append(all_results, assessments[i])
    /\ \E tokens \in CallTokens :
          course_metrics' = aggregate(course_metrics, result_metrics(outcome, tokens))
    /\ pc' = "evaluated"
    /\ UNCHANGED <<files, course_data, force_restart, checkpoint,
                   completed_assessments, i, failed_evaluations, result_files,
                   skipped, savedInRun, forcedEver, result_json, combined_file>>
    /\ UNCHANGED <<storeVars, scoreVars, evalVars, fnVars, loadVars, batchVars>>

\* lines 379-380, 457-462: the call returned but evaluate_assessment raised
\* while it read the response; the loop goes on with the next assessment.
EvaluateRaises ==
    /\ pc = "loop"
    /\ i <= Len(assessments)
    /\ ~is_skipped(assessments[i], completed_assessments)
    /\ called' = called \cup {i}
    /\ NoteReturned(i)
    /\ failed_evaluations' = failed_evaluations + 1
    /\ i' = i + 1
    /\ UNCHANGED <<files, pc, course_data, force_restart, checkpoint,
                   completed_assessments, all_results, result_files, skipped,
                   savedInRun, forcedEver>>
    /\ UNCHANGED <<storeVars, scoreVars, evalVars, auxVars>>

\* lines 425-445 left out: the loop goes on to the checkpoint without a file
WriteResult_not_written ==
    /\ pc = "evaluated"
    /\ pc' = "written"
    /\ UNCHANGED <<files, course_data, force_restart, checkpoint,
                   completed_assessments, i, all_results, failed_evaluations,
                   called, skipped, savedInRun, returned, returnedAgain, forcedEver,
                   result_files>>
    /\ UNCHANGED <<storeVars, scoreVars, evalVars, auxVars>>

\* lines 425-445: the per-assessment result files are written
WriteResult ==
    /\ pc = "evaluated"
    /\ result_files' = result_files \cup {assessments[i]}
    /\ LET metrics == course_metrics.assessment_metrics[Len(course_metrics.assessment_metrics)]
       IN  result_json' = [name \in DOMAIN result_json \cup {assessments[i]} |->
                             IF name = assessments[i] THEN metrics ELSE result_json[name]]
    /\ pc' = "written"
    /\ UNCHANGED <<files, course_data, force_restart, checkpoint,
                   completed_assessments, i, all_results, failed_evaluations,
                   called, skipped, savedInRun, returned, returnedAgain, forcedEver>>
    /\ UNCHANGED <<storeVars, scoreVars, evalVars, fnVars, loadVars, batchVars,
                   course_metrics, combined_file>>

\* lines 447-455 and save_checkpoint line 95: the name is appended and the
\* checkpoint file is opened for writing, which empties it.
SaveOpen ==
    /\ pc = "written"
    /\ completed_assessments' = Append(completed_assessments, assessments[i])
    /\ files' = open_w(files, RunModel, RunCourse)
    /\ IF files[RunPath].kind = "unreadable"
       THEN pc' = "loop" /\ i' = i + 1
       ELSE pc' = "saving" /\ i' = i
    /\ UNCHANGED <<course_data, force_restart, checkpoint, all_results,
                   failed_evaluations, result_files, called, skipped, savedInRun,
                   returned, returnedAgain, forcedEver>>
    /\ UNCHANGED <<storeVars, scoreVars, evalVars, auxVars>>

\* save_checkpoint line 96: the record is written and the file closed
SaveDump ==
    /\ pc = "saving"
    /\ files' = save_checkpoint(files, RunModel, RunCourse, Len(assessments),
                                completed_assessments)
    /\ savedInRun' = TRUE
    /\ i' = i + 1
    /\ pc' = "loop"
    /\ UNCHANGED <<course_data, force_restart, checkpoint, completed_assessments,
                   all_results, failed_evaluations, result_files, called, skipped,
                   returned, returnedAgain, forcedEver>>
    /\ UNCHANGED <<storeVars, scoreVars, evalVars, auxVars>>

\* lines 464-487: the loop is over
LoopEnd ==
    /\ pc = "loop"
    /\ i > Len(assessments)
    /\ pc' = "summary"
    /\ UNCHANGED <<files, course_data, force_restart, checkpoint, completed_assessments,
                   i, all_results, failed_evaluations, result_files, called, skipped,
                   savedInRun, returned, returnedAgain, forcedEver>>
    /\ UNCHANGED <<storeVars, scoreVars, evalVars, auxVars>>

\* lines 489-532: the combined results and the metrics log are written
WriteOutputs ==
    /\ pc = "summary"
    /\ combined_file' = IF all_results # <<>>
                        THEN combined_data(all_results, course_metrics)
                        ELSE combined_file
    /\ pc' = "clearing"
    /\ UNCHANGED <<course_metrics, result_json>>
    /\ UNCHANGED <<files, course_data, force_restart, checkpoint, completed_assessments,
                   i, all_results, failed_evaluations, result_files, called, skipped,
                   savedInRun, returned, returnedAgain, forcedEver>>
    /\ UNCHANGED <<storeVars, scoreVars, evalVars, fnVars, loadVars, batchVars>>

\* lines 534-536: the checkpoint is cleared and the function returns
ClearAndReturn ==
    /\ pc = "clearing"
    /\ files' = clear_checkpoint(files, RunModel, RunCourse)
    /\ pc' = "done"
    /\ UNCHANGED <<course_data, force_restart, checkpoint, completed_assessments,
                   i, all_results, failed_evaluations, result_files, called, skipped,
                   savedInRun, returned, returnedAgain, forcedEver>>
    /\ UNCHANGED <<storeVars, scoreVars, evalVars, auxVars>>

\* The process dies; what it held in memory is gone, the files stay.
Crash ==
    /\ pc \in Running
    /\ pc' = "crashed"
    /\ completed_assessments' = <<>>
    /\ i' = 0
    /\ all_results' = <<>>
    /\ failed_evaluations' = 0
    /\ course_metrics' = CourseMetrics0
    /\ UNCHANGED <<files, course_data, force_restart, checkpoint, result_files,
                   called, skipped, savedInRun, returned, returnedAgain, forcedEver,
                   result_json, combined_file>>
    /\ UNCHANGED <<storeVars, scoreVars, evalVars, fnVars, loadVars, batchVars>>

Next ==
    \/ \E force \in BOOLEAN : StartRun(force)
    \/ CourseNotLoaded
    \/ NoAssessments
    \/ LoadStep
    \/ Skip
    \/ \E outcome \in {"ok", "call_failed"} : Evaluate(outcome)
    \/ EvaluateRaises
    \/ WriteResult
    \/ SaveOpen
    \/ SaveDump
    \/ LoopEnd
    \/ WriteOutputs
    \/ ClearAndReturn
    \/ Crash

Spec == Init /\ [][Next]_vars

\* The checkpoint a load for the run's key would return now, None if none.
StoredCheckpoint ==
    LET r == load_checkpoint(files, RunModel, RunCourse)
    IN  IF r.raised THEN None ELSE r.value

\* C1: in a run without force_restart, the Analysis Service is never called
\* for an assessment whose name is in the completed list of the checkpoint
\* the run loaded.
C1_CompletedNeverCalled ==
    (~force_restart /\ checkpoint # None) =>
        \A j \in called : assessments[j] \notin Range(checkpoint.completed_assessments)

\* A resumed run has finished: it skipped a name its checkpoint listed and
\* called the service for another one.
C1_Witness ==
    /\ pc = "done"
    /\ ~force_restart
    /\ checkpoint # None
    /\ \E j \in skipped : assessments[j] \in Range(checkpoint.completed_assessments)
    /\ called # {}

\* C2 as stated: over runs without force_restart, crashed, restarted or
\* started after a finished run, the call for an assessment, hence for its
\* name, returns successfully at most once.
C2_AtMostOnceReturned ==
    ~forcedEver => returnedAgain = {}

\* C2 as amended: a run without force_restart never calls the Analysis
\* Service for a name that the stored checkpoint of the key lists as completed.
C2_NoCallWhileListed ==
    [][(~force_restart' /\ StoredCheckpoint # None) =>
          \A j \in called' \ called :
              assessments[j] \notin Range(StoredCheckpoint.completed_assessments)]_vars

\* A resumed run has called the service for a name while the stored
\* checkpoint lists another name, which the run skipped.
C2_Witness ==
    /\ pc = "evaluated"
    /\ ~force_restart
    /\ StoredCheckpoint # None
    /\ StoredCheckpoint.completed_assessments # <<>>
    /\ skipped # {}
    /\ assessments[i] \notin Range(StoredCheckpoint.completed_assessments)

\* C3: when the run returns after the loop, the checkpoint is absent only if
\* no evaluation raised; if one raised, the checkpoint is kept and lists the
\* completed names.
C3_CheckpointKeptAfterFailure ==
    pc = "done" =>
        /\ StoredCheckpoint = None => failed_evaluations = 0
        /\ failed_evaluations > 0 =>
              /\ StoredCheckpoint # None
              /\ StoredCheckpoint.completed_assessments = completed_assessments

\* C4: a run started with force_restart deletes the existing checkpoint
\* before the first assessment is evaluated, so that until the run's first
\* save no checkpoint record is stored, and no assessment is skipped because
\* of the old checkpoint's names.
C4_ForceRestartDeletesFirst ==
    force_restart =>
        /\ (called # {} /\ ~savedInRun /\ pc # "saving") => files[RunPath].kind # "record"
        /\ \A j \in skipped : \E h \in called : h < j /\ assessments[h] = assessments[j]

(***************************************************************************)
(* Composite score.  A JSON object is a function from its keys to values.  *)
(* A score is a rational with denominator ScoreDen, and a returned score   *)
(* is a whole number of hundredths, as after round(x, 2).                  *)
(***************************************************************************)

EmptyDict == <<>>

\* dict.get(key, default)
Get(d, key, default) == IF key \in DOMAIN d THEN d[key] ELSE default

RECURSIVE SumSeq(_)
SumSeq(s) == IF s = <<>> THEN 0 ELSE s[1] + SumSeq(Tail(s))

DifficultyKeys == <<"complexity_score", "language_difficulty_score",
                    "cognitive_effort_score", "course_alignment_score">>

BloomsLevels == <<"remember", "understand", "apply", "analyze", "evaluate", "create">>

\* prompt_manager.get_blooms_weights, the default table, each weight doubled:
\* 1.0, 1.5, 2.0, 2.5, 3.0, 3.5
get_blooms_weights2 ==
    [remember |-> 2, understand |-> 3, apply |-> 4, analyze |-> 5,
     evaluate |-> 6, create |-> 7]

TotalWeight2 == SumSeq([n \in 1..Len(BloomsLevels) |-> get_blooms_weights2[BloomsLevels[n]]])
MaxWeight2 ==
    CHOOSE w \in Range(get_blooms_weights2) : \A v \in Range(get_blooms_weights2) : v <= w

\* The common denominator of the components: 4 sub-scores, the doubled
\* total weight and the doubled largest weight.
ScoreDen == 4 * TotalWeight2 * MaxWeight2

\* (sum(diff_scores) / len(diff_scores)) * 10, times ScoreDen
difficulty_component(difficulty_result) ==
    LET diff_scores == [n \in 1..Len(DifficultyKeys) |->
                            Get(difficulty_result, DifficultyKeys[n], 5)]
    IN  SumSeq(diff_scores) * 10 * TotalWeight2 * MaxWeight2

\* (total_weighted / total_weight) * (100 / max(weights)), times ScoreDen;
\* 50 if the total weight is not positive
blooms_component(blooms_result) ==
    LET blooms_scores == Get(blooms_result, "blooms_scores", EmptyDict)
        total_weighted2 == SumSeq([n \in 1..Len(BloomsLevels) |->
            Get(blooms_scores, BloomsLevels[n], 0) * get_blooms_weights2[BloomsLevels[n]]])
    IN  IF TotalWeight2 > 0 THEN total_weighted2 * 200 * 4
        ELSE 50 * ScoreDen

\* round(x, 2) of the rational num / ScoreDen hundredths: nearest, ties to even
RoundHundredths(num) ==
    LET q == num \div ScoreDen
        r == num % ScoreDen
    IN  IF 2 * r < ScoreDen THEN q
        ELSE IF 2 * r > ScoreDen THEN q + 1
        ELSE IF q % 2 = 0 THEN q ELSE q + 1

Min(a, b) == IF a <= b THEN a ELSE b
Max(a, b) == IF a >= b THEN a ELSE b

\* Lines 709-717: the weighted sum of the two components (each times
\* ScoreDen) and the course-fit score, in hundredths times ScoreDen.
weighted_sum_swapped(dc, bc, course_fit_score, is_standalone) ==
    IF is_standalone
    THEN dc * 60 + bc * 40
    ELSE dc * 25 + bc * 35 + course_fit_score * ScoreDen * 40

weighted_sum(dc, bc, course_fit_score, is_standalone) ==
    IF is_standalone
    THEN dc * 40 + bc * 60
    ELSE dc * 25 + bc * 35 + course_fit_score * ScoreDen * 40

\* Line 719: round(min(100, max(0, aqs)), 2)
clamp_round(aqs) == RoundHundredths(Min(100 * 100 * ScoreDen, Max(0, aqs)))

\* The weighted sum before clamping, in hundredths times ScoreDen.
weighted_aqs(difficulty_result, blooms_result, course_fit_score, is_standalone) ==
    weighted_sum(difficulty_component(difficulty_result),
                 blooms_component(blooms_result), course_fit_score, is_standalone)

_compute_final_aqs_unclamped(difficulty_result, blooms_result, course_fit_score, is_standalone) ==
    RoundHundredths(weighted_aqs(difficulty_result, blooms_result,
                                 course_fit_score, is_standalone))

_compute_final_aqs(difficulty_result, blooms_result, course_fit_score, is_standalone) ==
    LET aqs == weighted_aqs(difficulty_result, blooms_result,
                            course_fit_score, is_standalone)
    IN  clamp_round(aqs)

(***************************************************************************)
(* SpecScore: _compute_final_aqs called once on arguments drawn from       *)
(* in-range, boundary and out-of-range values.                             *)
(***************************************************************************)

DictsOver(keys, values) == UNION {[S -> values] : S \in SUBSET keys}

DifficultyValues == {-10, 0, 10, 20}
BloomsValues == {0, 100}
BloomsUniform == {-100, 50, 300}
CourseFitValues == {-50, 0, 100, 150}

DifficultyInputs == DictsOver(Range(DifficultyKeys), DifficultyValues)

BloomsInputs ==
    {EmptyDict}
    \cup {[blooms_scores |-> b] : b \in [Range(BloomsLevels) -> BloomsValues]}
    \cup {[blooms_scores |-> [l \in Range(BloomsLevels) |-> v]] : v \in BloomsUniform}
    \cup {[blooms_scores |-> EmptyDict]}

ScoreInit ==
    /\ score_in \in [difficulty_result : DifficultyInputs,
                      blooms_result : BloomsInputs,
                      course_fit_score : CourseFitValues,
                      is_standalone : BOOLEAN]
    /\ aqs_score = -1
    /\ StoreIdle
    /\ RunIdle
    /\ EvalIdle
    /\ AuxIdle

ComputeFinalAqs ==
    /\ aqs_score = -1
    /\ aqs_score' = _compute_final_aqs(score_in.difficulty_result, score_in.blooms_result,
                                       score_in.course_fit_score, score_in.is_standalone)
    /\ UNCHANGED score_in
    /\ UNCHANGED <<files, storeVars, runVars, evalVars, auxVars>>

ScoreNext == ComputeFinalAqs

SpecScore == ScoreInit /\ [][ScoreNext]_vars

\* C10: the composite score _compute_final_aqs returns is within [0, 100]
\* (0 to 10000 hundredths) for all sub-scores, in range or not.
C10_ScoreInRange ==
    aqs_score # -1 => (0 <= aqs_score /\ aqs_score <= 100 * 100)

\* A score was computed from arguments whose weighted sum lies above 100.
C10_Witness ==
    /\ aqs_score = 100 * 100
    /\ weighted_aqs(score_in.difficulty_result, score_in.blooms_result,
                    score_in.course_fit_score, score_in.is_standalone)
           > 100 * 100 * ScoreDen

(***************************************************************************)
(* evaluate_assessment.  Texts are known by their length only; a response  *)
(* text is known by its form and the JSON value it carries.                *)
(***************************************************************************)

\* JSON null and a JSON array, the two values met where an object is expected.
Null == [json_null |-> TRUE]
JsonArray == [json_array |-> TRUE]

IsDict(v) == v # Null /\ v # JsonArray

\* Keys whose value, when present and not null, is an object.
ObjectKeys == {"difficulty_analysis", "blooms_taxonomy", "course_fit",
               "blooms_scores", "blooms_rationales"}

\* The order in which the service writes the keys of an object.
KeyOrder == <<"difficulty_analysis", "blooms_taxonomy", "blooms_scores",
              "blooms_rationales", "course_fit">>

SubObjectKeys(obj) == {k \in DOMAIN obj \cap ObjectKeys : IsDict(obj[k])}

\* The text of the object has no brace pair nested deeper than one level.
OneLevel(obj) == \A k \in SubObjectKeys(obj) : SubObjectKeys(obj[k]) = {}

\* The leftmost object of the text that the brace pattern of line 805 matches:
\* the object itself, else the first of its sub-objects in writing order.
FirstOneLevel(obj) ==
    IF OneLevel(obj) THEN obj
    ELSE LET first == CHOOSE n \in 1..Len(KeyOrder) :
                          /\ KeyOrder[n] \in SubObjectKeys(obj)
                          /\ \A m \in 1..(n - 1) : KeyOrder[m] \notin SubObjectKeys(obj)
         IN  obj[KeyOrder[first]]

\* Forms of a response text: no JSON at all ("prose"), an object in a json
\* code fence ("fenced"), an object in plain text ("bare"), a text that is
\* one JSON array ("array").
_extract_json(text) ==
    IF text.form = "fenced" THEN text.json
    ELSE IF text.form = "bare" THEN FirstOneLevel(text.json)
    ELSE IF text.form = "array" THEN JsonArray
    ELSE EmptyDict

TokenMetrics0 ==
    [input_tokens |-> 0, output_tokens |-> 0, thinking_tokens |-> 0,
     cached_tokens |-> 0, total_tokens |-> 0,
     input_cost |-> 0, output_cost |-> 0, total_cost |-> 0]

\* MODEL_PRICING and DEFAULT_PRICING, USD per million tokens times 100.
MODEL_PRICING ==
    [m \in {"gemini-2.0-flash", "gemini-2.5-flash", "gemini-3-pro-preview",
            "gemini-3-flash-preview"} |->
        CASE m = "gemini-2.0-flash" -> [input |-> 10, output |-> 40]
          [] m = "gemini-2.5-flash" -> [input |-> 30, output |-> 250]
          [] m = "gemini-3-pro-preview" -> [input |-> 200, output |-> 1200]
          [] m = "gemini-3-flash-preview" -> [input |-> 50, output |-> 300]]

DEFAULT_PRICING == [input |-> 10, output |-> 40]

\* TokenMetrics.calculate_cost; a cost is a whole number of 1e-8 USD.
calculate_cost_listed_only(tokens, model_name) ==
    LET pricing == Get(MODEL_PRICING, model_name, [input |-> 0, output |-> 0])
        input_cost == tokens.input_tokens * pricing.input
        output_cost == tokens.output_tokens * pricing.output
    IN  [tokens EXCEPT !.input_cost = input_cost,
                       !.output_cost = output_cost,
                       !.total_cost = input_cost + output_cost]

calculate_cost(tokens, model_name) ==
    LET pricing == Get(MODEL_PRICING, model_name, DEFAULT_PRICING)
        input_cost == tokens.input_tokens * pricing.input
        output_cost == tokens.output_tokens * pricing.output
    IN  [tokens EXCEPT !.input_cost = input_cost,
                       !.output_cost = output_cost,
                       !.total_cost = input_cost + output_cost]

\* _call_llm: the outcome of generate_content is an exception, or a response
\* with usage metadata (None if there is none) and a text (None if there is none).
_call_llm_reports_success(outcome) ==
    [combined_result |-> [error |-> "e"], tokens |-> TokenMetrics0, success |-> TRUE]

_call_llm(outcome) ==
    IF outcome.kind = "exception"
    THEN [combined_result |-> [error |-> "e"], tokens |-> TokenMetrics0, success |-> FALSE]
    ELSE LET metrics == IF outcome.usage = None THEN TokenMetrics0
                        ELSE [TokenMetrics0 EXCEPT
                                !.input_tokens = outcome.usage.prompt_token_count,
                                !.output_tokens = outcome.usage.candidates_token_count,
                                !.thinking_tokens = outcome.usage.thoughts_token_count,
                                !.cached_tokens = outcome.usage.cached_content_token_count,
                                !.total_tokens = outcome.usage.total_token_count]
         IN  IF outcome.text = None
             THEN \* re.search(pattern, None) raises TypeError inside the try
                  [combined_result |-> [error |-> "e"], tokens |-> metrics, success |-> FALSE]
             ELSE [combined_result |-> _extract_json(outcome.text), tokens |-> metrics,
                   success |-> TRUE]

\* _get_aqs_quality_tier, on hundredths
_get_aqs_quality_tier_exclusive(score) ==
    IF score > 85 * 100 THEN "Excellent"
    ELSE IF score > 70 * 100 THEN "Good"
    ELSE IF score > 55 * 100 THEN "Satisfactory"
    ELSE IF score > 40 * 100 THEN "Needs Improvement"
    ELSE "Poor"

_get_aqs_quality_tier(score) ==
    IF score >= 85 * 100 THEN "Excellent"
    ELSE IF score >= 70 * 100 THEN "Good"
    ELSE IF score >= 55 * 100 THEN "Satisfactory"
    ELSE IF score >= 40 * 100 THEN "Needs Improvement"
    ELSE "Poor"

\* prompt_manager defaults
FewQuestionsThreshold == 5
DifficultyMismatchThreshold == 30

\* _check_edge_cases: the warnings and the confidence flags it appends
_check_edge_cases(in) ==
    LET few == in.assessment.total_questions < FewQuestionsThreshold
        none == in.assessment.questions = 0
    IN  [warnings |->
            (IF few /\ in.few_questions_template THEN <<"few_questions">> ELSE <<>>)
            \o (IF none THEN <<"No question details available">> ELSE <<>>),
         confidence_flags |->
            (IF few THEN <<"Low question count">> ELSE <<>>)
            \o (IF none THEN <<"Missing question details">> ELSE <<>>)]

\* Lines 373-387: the content sent with the call.
ModuleContentBudget == 10000
TruncationMarkerLen == 15

effective_content_summary(assessment) ==
    LET mc == assessment.module_content
    IN  IF assessment.is_final_assessment
        THEN [scope |-> "full", truncated |-> FALSE, length |-> 0]
        ELSE IF mc # None /\ (mc.transcript > 0 \/ mc.pdf_text > 0)
        THEN LET len == (8 + mc.module_name)
                        + (IF mc.transcript > 0 THEN 1 + 20 + mc.transcript ELSE 0)
                        + (IF mc.pdf_text > 0 THEN 1 + 21 + mc.pdf_text ELSE 0)
             IN  IF len > ModuleContentBudget
                 THEN [scope |-> "module", truncated |-> TRUE,
                       length |-> ModuleContentBudget + TruncationMarkerLen]
                 ELSE [scope |-> "module", truncated |-> FALSE, length |-> len]
        ELSE [scope |-> "full", truncated |-> FALSE, length |-> 0]

\* _check_difficulty_mismatch: the warning it appends
_check_difficulty_mismatch(in, fit_result) ==
    LET appropriateness == Get(fit_result, "difficulty_appropriateness_score", 100)
    IN  IF appropriateness < 100 - DifficultyMismatchThreshold /\ in.mismatch_template
        THEN <<"difficulty_mismatch">> ELSE <<>>

\* Lines 395-399: the call is counted
count_call_thrice(metrics, success) ==
    [metrics EXCEPT !.llm_calls = @ + 3,
                    !.successful_calls = IF success THEN @ + 1 ELSE @,
                    !.failed_calls = IF success THEN @ ELSE @ + 1]

count_call(metrics, success) ==
    [metrics EXCEPT !.llm_calls = @ + 1,
                    !.successful_calls = IF success THEN @ + 1 ELSE @,
                    !.failed_calls = IF success THEN @ ELSE @ + 1]

EvaluationMetrics0 ==
    [overall_tokens |-> TokenMetrics0,
     total_input_tokens |-> 0, total_output_tokens |-> 0, total_thinking_tokens |-> 0,
     total_cached_tokens |-> 0, total_tokens |-> 0,
     total_input_cost |-> 0, total_output_cost |-> 0, total_cost |-> 0,
     llm_calls |-> 0, successful_calls |-> 0, failed_calls |-> 0]

\* TokenMetrics.add
add(a, b) == [f \in DOMAIN a |-> a[f] + b[f]]

\* TokenEvaluationMetrics.calculate_total_cost
calculate_total_cost(metrics) ==
    [metrics EXCEPT !.total_input_tokens = metrics.overall_tokens.input_tokens,
                    !.total_output_tokens = metrics.overall_tokens.output_tokens,
                    !.total_thinking_tokens = metrics.overall_tokens.thinking_tokens,
                    !.total_cached_tokens = metrics.overall_tokens.cached_tokens,
                    !.total_tokens = metrics.overall_tokens.total_tokens,
                    !.total_input_cost = metrics.overall_tokens.input_cost,
                    !.total_output_cost = metrics.overall_tokens.output_cost,
                    !.total_cost = metrics.overall_tokens.total_cost]

\* Lines 403-502 raise where .get is called on a value that is not an object.
ReadingRaises(in, combined_result) ==
    \/ ~IsDict(combined_result)
    \/ ~IsDict(Get(combined_result, "difficulty_analysis", EmptyDict))
    \/ ~IsDict(Get(combined_result, "blooms_taxonomy", EmptyDict))
    \/ ~IsDict(Get(Get(combined_result, "blooms_taxonomy", EmptyDict),
                   "blooms_scores", EmptyDict))
    \/ (~in.is_standalone /\ Get(combined_result, "course_fit", EmptyDict) = JsonArray)

\* Lines 393-502, for a combined result they can read.
finish_result(in, partial, out) ==
    LET combined_result == out.combined_result
        tokens == calculate_cost(out.tokens, in.model_name)
        metrics1 == count_call([EvaluationMetrics0 EXCEPT
                                   !.overall_tokens = add(@, tokens)], out.success)
        failed_warning == IF ~out.success /\ "error" \in DOMAIN combined_result
                          THEN <<"LLM Analysis Failed">> ELSE <<>>
        difficulty_result == Get(combined_result, "difficulty_analysis", EmptyDict)
        blooms_result == Get(combined_result, "blooms_taxonomy", EmptyDict)
        blooms_scores == Get(blooms_result, "blooms_scores", EmptyDict)
        fit0 == Get(combined_result, "course_fit", EmptyDict)
        fit_result == IF in.is_standalone \/ fit0 = Null THEN EmptyDict ELSE fit0
        course_fit_score == IF in.is_standalone THEN 0
                            ELSE Get(fit_result, "course_fit_score", 0)
        mismatch == IF in.is_standalone THEN <<>>
                    ELSE _check_difficulty_mismatch(in, fit_result)
        aqs == _compute_final_aqs(difficulty_result, blooms_result,
                                  course_fit_score, in.is_standalone)
    IN  [assessment_name |-> in.assessment.name,
         content |-> partial.content,
         warnings |-> partial.warnings \o failed_warning \o mismatch,
         confidence_flags |-> partial.confidence_flags \o
            (IF in.is_standalone THEN <<"Standalone assessment">> ELSE <<>>),
         difficulty_level |-> Get(difficulty_result, "difficulty_level", "Intermediate"),
         difficulty_scores |-> [k \in Range(DifficultyKeys) |-> Get(difficulty_result, k, 0)],
         blooms_scores |-> [l \in Range(BloomsLevels) |-> Get(blooms_scores, l, 0)],
         course_fit_score |-> course_fit_score,
         course_fit_status |-> IF in.is_standalone THEN "Not Applicable"
                               ELSE Get(fit_result, "course_fit_status", ""),
         aqs_score |-> aqs,
         AQS_quality_tier |-> _get_aqs_quality_tier(aqs),
         metrics |-> calculate_total_cost(metrics1)]

(***************************************************************************)
(* SpecEval: one call of evaluate_assessment, over assessments of every    *)
(* kind and every outcome of the one Analysis Service call.                *)
(***************************************************************************)

ModuleContents ==
    {None,
     [module_name |-> 6, transcript |-> 0, pdf_text |-> 0],
     [module_name |-> 6, transcript |-> 500, pdf_text |-> 0],
     [module_name |-> 6, transcript |-> 9000, pdf_text |-> 2000]}

\* <<declared number of questions, number of questions parsed>>
QuestionCounts == {<<0, 0>>, <<3, 3>>, <<10, 10>>, <<10, 0>>}

EvalAssessments ==
    {[name |-> "A", is_final_assessment |-> TRUE, module_content |-> None,
      total_questions |-> q[1], questions |-> q[2]] : q \in QuestionCounts}
    \cup
    {[name |-> "A", is_final_assessment |-> FALSE, module_content |-> mc,
      total_questions |-> q[1], questions |-> q[2]] :
        mc \in ModuleContents, q \in QuestionCounts}

EvalInputs ==
    [assessment : EvalAssessments,
     is_standalone : BOOLEAN,
     course_warnings : {<<>>, <<"No transcripts found">>},
     model_name : {"gemini-2.5-flash", "unlisted-model"},
     few_questions_template : BOOLEAN,
     mismatch_template : BOOLEAN]

AllBlooms(v) == [l \in Range(BloomsLevels) |-> v]

FullObject ==
    [difficulty_analysis |->
        [difficulty_level |-> "Advanced", complexity_score |-> 8,
         language_difficulty_score |-> 6, cognitive_effort_score |-> 7,
         course_alignment_score |-> 9],
     blooms_taxonomy |-> [blooms_scores |-> AllBlooms(50)],
     course_fit |-> [course_fit_score |-> 70, course_fit_status |-> "Good Fit",
                     difficulty_appropriateness_score |-> 80],
     quality_tier_reasoning |-> "r"]

PartialObject ==
    [difficulty_analysis |-> [complexity_score |-> 8],
     course_fit |-> Null]

MismatchObject ==
    [course_fit |-> [course_fit_score |-> 40, difficulty_appropriateness_score |-> 50]]

NullSectionObject ==
    [difficulty_analysis |-> Null]

ResponseObjects == {FullObject, PartialObject, MismatchObject, NullSectionObject, EmptyDict}

ResponseTexts ==
    {None, [form |-> "prose", json |-> EmptyDict], [form |-> "array", json |-> JsonArray]}
    \cup {[form |-> f, json |-> o] : f \in {"fenced", "bare"}, o \in ResponseObjects}

Usages ==
    {None,
     [prompt_token_count |-> 1000, candidates_token_count |-> 200,
      thoughts_token_count |-> 50, cached_content_token_count |-> 0,
      total_token_count |-> 1250]}

ServiceOutcomes ==
    {[kind |-> "exception", usage |-> None, text |-> None]}
    \cup {[kind |-> "response", usage |-> u, text |-> t] : u \in Usages, t \in ResponseTexts}

EvalInit ==
    /\ epc = "start"
    /\ ev_in \in EvalInputs
    /\ service_calls = 0
    /\ call_out = None
    /\ result = None
    /\ StoreIdle
    /\ RunIdle
    /\ ScoreIdle
    /\ AuxIdle

\* lines 346-387: the result is created, the loader's warnings are copied,
\* the edge cases are checked and the content to send is chosen
Prepare ==
    /\ epc = "start"
    /\ LET edge == _check_edge_cases(ev_in)
       IN  result' = [warnings |-> ev_in.course_warnings \o edge.warnings,
                      confidence_flags |-> edge.confidence_flags,
                      content |-> effective_content_summary(ev_in.assessment)]
    /\ epc' = "ready"
    /\ UNCHANGED <<ev_in, service_calls, call_out>>
    /\ UNCHANGED <<files, storeVars, runVars, scoreVars, auxVars>>

\* lines 389-392: _analyze_combined makes the one call, through _call_llm
CallLLM(outcome) ==
    /\ epc = "ready"
    /\ service_calls' = service_calls + 1
    /\ call_out' = [outcome |-> outcome] @@ _call_llm(outcome)
    /\ epc' = "called"
    /\ UNCHANGED <<ev_in, result>>
    /\ UNCHANGED <<files, storeVars, runVars, scoreVars, auxVars>>

\* lines 393-502: the call is counted, the response is read and scored
Finish ==
    /\ epc = "called"
    /\ IF ReadingRaises(ev_in, call_out.combined_result)
       THEN epc' = "raised" /\ result' = None
       ELSE epc' = "returned" /\ result' = finish_result(ev_in, result, call_out)
    /\ UNCHANGED <<ev_in, service_calls, call_out>>
    /\ UNCHANGED <<files, storeVars, runVars, scoreVars, auxVars>>

EvalNext ==
    \/ Prepare
    \/ \E outcome \in ServiceOutcomes : CallLLM(outcome)
    \/ Finish

SpecEval == EvalInit /\ [][EvalNext]_vars

\* C8: when the Analysis Service call fails, evaluate_assessment does not
\* raise and returns a result: the failure is a warning of the result and one
\* failed call of its metrics, and the composite score is the one of the
\* default sub-scores (12.5 with a course, 20 standalone).
C8_FailedCallStillReturns ==
    (epc \in {"returned", "raised"} /\ call_out.outcome.kind = "exception") =>
        /\ epc = "returned"
        /\ "LLM Analysis Failed" \in Range(result.warnings)
        /\ result.metrics.failed_calls = 1
        /\ result.metrics.successful_calls = 0
        /\ result.aqs_score = IF ev_in.is_standalone THEN 2000 ELSE 1250
        /\ result.AQS_quality_tier = "Poor"

\* The call of a course-linked evaluation failed and the result came back.
C8_Witness ==
    /\ epc = "returned"
    /\ call_out.outcome.kind = "exception"
    /\ ~ev_in.is_standalone
    /\ result.metrics.failed_calls = 1
    /\ result.aqs_score = 1250

\* C9: every call of evaluate_assessment makes exactly one Analysis Service
\* call, and the metrics it returns have llm_calls = 1 and
\* successful_calls + failed_calls = 1.
C9_ExactlyOneCall ==
    /\ epc \in {"called", "returned", "raised"} => service_calls = 1
    /\ epc = "returned" =>
          /\ result.metrics.llm_calls = 1
          /\ result.metrics.successful_calls + result.metrics.failed_calls = 1

\* A module-level assessment with module text was evaluated with its course.
C9_Witness ==
    /\ epc = "returned"
    /\ ~ev_in.assessment.is_final_assessment
    /\ ~ev_in.is_standalone
    /\ result.content.scope = "module"
    /\ call_out.success
    /\ result.metrics.llm_calls = 1

(***************************************************************************)
(* SpecTier: _get_aqs_quality_tier called on two scores, drawn from the    *)
(* ends of the scale and from one hundredth below, at and above every      *)
(* threshold.                                                              *)
(***************************************************************************)

\* The lower bounds tested at lines 732-739.
TierThresholds == {40, 55, 70, 85}

TierScores ==
    {-1, 0, 100 * 100, 100 * 100 + 1}
    \cup {t * 100 + e : t \in TierThresholds, e \in {-1, 0, 1}}

TierInit ==
    /\ fn_in \in [s1 : TierScores, s2 : TierScores]
    /\ fn_out = None
    /\ StoreIdle
    /\ RunIdle
    /\ ScoreIdle
    /\ EvalIdle
    /\ LoadIdle
    /\ BatchIdle
    /\ MetricIdle

GetTiers ==
    /\ fn_out = None
    /\ fn_out' = [t1 |-> _get_aqs_quality_tier(fn_in.s1),
                  t2 |-> _get_aqs_quality_tier(fn_in.s2)]
    /\ UNCHANGED fn_in
    /\ UNCHANGED <<files, storeVars, runVars, scoreVars, evalVars, loadVars, batchVars, metricVars>>

TierNext == GetTiers

SpecTier == TierInit /\ [][TierNext]_vars

\* C11: the tier of a score s is Excellent from 85, Good from 70 to below 85,
\* Satisfactory from 55 to below 70, Needs Improvement from 40 to below 55 and
\* Poor below 40, so a score equal to a threshold gets the higher tier; and
\* for s1 <= s2 the tier of s2 is not lower than the tier of s1.
C11_TierThresholdsMonotonic ==
    fn_out # None =>
        LET rank(t) == CASE t = "Poor" -> 0
                         [] t = "Needs Improvement" -> 1
                         [] t = "Satisfactory" -> 2
                         [] t = "Good" -> 3
                         [] t = "Excellent" -> 4
            s == fn_in.s1
            t == fn_out.t1
        IN  /\ (t = "Excellent") = (s >= 8500)
            /\ (t = "Good") = (7000 <= s /\ s < 8500)
            /\ (t = "Satisfactory") = (5500 <= s /\ s < 7000)
            /\ (t = "Needs Improvement") = (4000 <= s /\ s < 5500)
            /\ (t = "Poor") = (s < 4000)
            /\ fn_in.s1 <= fn_in.s2 => rank(fn_out.t1) <= rank(fn_out.t2)

\* The tiers of 69.99 and of the threshold 70.00 were computed: Satisfactory
\* and Good.
C11_Witness ==
    /\ fn_out # None
    /\ fn_in.s1 = 6999
    /\ fn_in.s2 = 7000
    /\ fn_out.t1 = "Satisfactory"
    /\ fn_out.t2 = "Good"

(***************************************************************************)
(* SpecCombine: lines 709-719 of _compute_final_aqs applied to a           *)
(* difficulty component, a taxonomy component and a course-fit score that  *)
(* are whole numbers of the scale, then the tier of the result.            *)
(***************************************************************************)

ComponentValues == {0, 25, 60, 80, 100}

CombineInit ==
    /\ fn_in \in [d : ComponentValues, t : ComponentValues, f : ComponentValues,
                  is_standalone : BOOLEAN]
    /\ fn_out = None
    /\ StoreIdle
    /\ RunIdle
    /\ ScoreIdle
    /\ EvalIdle
    /\ LoadIdle
    /\ BatchIdle
    /\ MetricIdle

Combine ==
    /\ fn_out = None
    /\ LET aqs == clamp_round(weighted_sum(fn_in.d * ScoreDen, fn_in.t * ScoreDen,
                                           fn_in.f, fn_in.is_standalone))
       IN  fn_out' = [aqs_score |-> aqs, tier |-> _get_aqs_quality_tier(aqs)]
    /\ UNCHANGED fn_in
    /\ UNCHANGED <<files, storeVars, runVars, scoreVars, evalVars, loadVars, batchVars, metricVars>>

CombineNext == Combine

SpecCombine == CombineInit /\ [][CombineNext]_vars

\* C12: for components d, t and a course-fit score f in 0..100 the composite
\* is 0.40*d + 0.60*t for a standalone assessment, whatever f is, and
\* 0.25*d + 0.35*t + 0.40*f otherwise, clamped to [0, 100]; standalone d = 80,
\* t = 60 gives 68.0 and the tier Satisfactory.
C12_WeightedComposite ==
    fn_out # None =>
        LET sum == IF fn_in.is_standalone
                   THEN 40 * fn_in.d + 60 * fn_in.t
                   ELSE 25 * fn_in.d + 35 * fn_in.t + 40 * fn_in.f
            clamped == IF sum > 10000 THEN 10000 ELSE IF sum < 0 THEN 0 ELSE sum
        IN  /\ fn_out.aqs_score = clamped
            /\ (fn_in.is_standalone /\ fn_in.d = 80 /\ fn_in.t = 60) =>
                   (fn_out.aqs_score = 6800 /\ fn_out.tier = "Satisfactory")

\* The composite of the standalone example d = 80, t = 60 was computed.
C12_Witness ==
    /\ fn_out # None
    /\ fn_in.is_standalone
    /\ fn_in.d = 80
    /\ fn_in.t = 60
    /\ fn_out.aqs_score = 6800

\* C13: a course-linked evaluation whose response has the difficulty
\* sub-scores 8, 6, 7, 9, all six taxonomy scores 50 and course_fit_score 70
\* has difficulty component 75.0, taxonomy component 50.0, composite score
\* 64.25 and tier Satisfactory.
C13_ScenarioScore ==
    (/\ epc = "returned"
     /\ ~ev_in.is_standalone
     /\ result.difficulty_scores =
            [complexity_score |-> 8, language_difficulty_score |-> 6,
             cognitive_effort_score |-> 7, course_alignment_score |-> 9]
     /\ result.blooms_scores = AllBlooms(50)
     /\ result.course_fit_score = 70)
    => /\ difficulty_component(call_out.combined_result.difficulty_analysis) = 75 * ScoreDen
       /\ blooms_component(call_out.combined_result.blooms_taxonomy) = 50 * ScoreDen
       /\ result.aqs_score = 6425
       /\ result.AQS_quality_tier = "Satisfactory"

(***************************************************************************)
(* SpecCost: TokenMetrics.calculate_cost called on the token counts of one *)
(* call, for every model of the pricing table and for one that is not      *)
(* in it.                                                                  *)
(***************************************************************************)

TokenCounts == {0, 1, 1000, 500000, 1000000}

CostModels == DOMAIN MODEL_PRICING \cup {"unlisted-model"}

CostInit ==
    /\ fn_in \in [input_tokens : TokenCounts, output_tokens : TokenCounts,
                  model_name : CostModels]
    /\ fn_out = None
    /\ StoreIdle
    /\ RunIdle
    /\ ScoreIdle
    /\ EvalIdle
    /\ LoadIdle
    /\ BatchIdle
    /\ MetricIdle

CalculateCost ==
    /\ fn_out = None
    /\ fn_out' = calculate_cost([TokenMetrics0 EXCEPT
                                    !.input_tokens = fn_in.input_tokens,
                                    !.output_tokens = fn_in.output_tokens],
                                fn_in.model_name)
    /\ UNCHANGED fn_in
    /\ UNCHANGED <<files, storeVars, runVars, scoreVars, evalVars, loadVars, batchVars, metricVars>>

CostNext == CalculateCost

SpecCost == CostInit /\ [][CostNext]_vars

\* C14: calculate_cost sets input_cost to the input tokens times the input
\* price per million, output_cost to the output tokens times the output price
\* per million and total_cost to their sum, at the model's rate of the pricing
\* table or at the default rate (0.10 and 0.40) for a model that is not in
\* it; no cost is negative.  Costs are in 1e-8 USD.
C14_CostFormula ==
    fn_out # None =>
        LET listed == fn_in.model_name \in DOMAIN MODEL_PRICING
            in_price == IF listed THEN MODEL_PRICING[fn_in.model_name].input ELSE 10
            out_price == IF listed THEN MODEL_PRICING[fn_in.model_name].output ELSE 40
        IN  /\ fn_out.input_cost = fn_in.input_tokens * in_price
            /\ fn_out.output_cost = fn_in.output_tokens * out_price
            /\ fn_out.total_cost = fn_out.input_cost + fn_out.output_cost
            /\ fn_out.input_cost >= 0
            /\ fn_out.output_cost >= 0
            /\ fn_out.total_cost >= 0

\* The cost of a call with tokens on both sides was computed for a model
\* that is not in the pricing table.
C14_Witness ==
    /\ fn_out # None
    /\ fn_in.model_name \notin DOMAIN MODEL_PRICING
    /\ fn_in.input_tokens = 1000000
    /\ fn_in.output_tokens = 1000
    /\ fn_out.total_cost = 1000000 * 10 + 1000 * 40

(***************************************************************************)
(* SpecLoad: one AssessmentDataLoader whose load_course is called on the   *)
(* courses of a data directory.  A course directory is absent or holds a   *)
(* metadata.json (absent, not openable, not JSON, JSON that is not an      *)
(* object, or an object), transcripts or none, an Assessments directory    *)
(* with assessments or none.                                               *)
(***************************************************************************)

MaxLoads == 2

LoadCourseIds == {"c1", "c2"}

NoDir == [exists |-> FALSE]

MetadataKinds == {"absent", "unreadable", "notjson", "nonobject", "object"}

CourseDirs ==
    {NoDir} \cup [exists : {TRUE}, metadata : MetadataKinds,
                  has_transcripts : BOOLEAN, has_assessments : BOOLEAN]

\* The outcome of a loader method: the value returned or an exception that
\* escaped, and the loader's warning list afterwards.
LoaderReturns(v, w) == [raised |-> FALSE, value |-> v, warnings |-> w]
LoaderRaises(w) == [raised |-> TRUE, value |-> None, warnings |-> w]

\* _load_metadata: only json.JSONDecodeError is caught
_load_metadata(dir, warnings) ==
    IF dir.metadata = "absent"
    THEN LoaderReturns(None, Append(warnings, "Missing metadata.json"))
    ELSE IF dir.metadata = "unreadable" THEN LoaderRaises(warnings)   \* open() raises OSError
    ELSE IF dir.metadata = "notjson"
    THEN LoaderReturns(None, Append(warnings, "Error parsing metadata.json"))
    ELSE IF dir.metadata = "nonobject" THEN LoaderRaises(warnings)    \* .get on a non-dict
    ELSE LoaderReturns([kind |-> "metadata"], warnings)

\* _load_course_content: the warnings it appends
_load_course_content(dir, warnings) ==
    IF dir.has_transcripts THEN warnings
    ELSE Append(warnings, "No transcripts found")

\* _load_assessments: the warnings it appends
_load_assessments(dir, warnings) ==
    IF dir.has_assessments THEN warnings
    ELSE Append(warnings, "No Assessments directory found")

load_course(dir, warnings) ==
    IF ~dir.exists
    THEN LoaderReturns(None, Append(warnings, "Course directory not found"))
    ELSE LET metadata == _load_metadata(dir, warnings)
         IN  IF metadata.raised \/ metadata.value = None THEN metadata
             ELSE LET w == _load_assessments(dir, _load_course_content(dir, metadata.warnings))
                  IN  LoaderReturns([metadata |-> metadata.value,
                                     has_assessments |-> dir.has_assessments,
                                     warnings |-> w], w)

LoadInit ==
    /\ data_dir \in [LoadCourseIds -> CourseDirs]
    /\ loader_warnings = <<>>
    /\ loads = 0
    /\ load_ret = None
    /\ StoreIdle
    /\ RunIdle
    /\ ScoreIdle
    /\ EvalIdle
    /\ FnIdle
    /\ BatchIdle
    /\ MetricIdle

LoadCourse(course_id) ==
    /\ loads < MaxLoads
    /\ LET r == load_course(data_dir[course_id], loader_warnings)
       IN  /\ loader_warnings' = r.warnings
           /\ load_ret' = [course_id |-> course_id, raised |-> r.raised, value |-> r.value,
                           warnings_before |-> loader_warnings]
    /\ loads' = loads + 1
    /\ UNCHANGED data_dir
    /\ UNCHANGED <<files, storeVars, runVars, scoreVars, evalVars, fnVars, batchVars, metricVars>>

LoadNext == \E course_id \in LoadCourseIds : LoadCourse(course_id)

SpecLoad == LoadInit /\ [][LoadNext]_vars

\* C15: when the course directory is absent, metadata.json is absent or
\* metadata.json cannot be parsed into course metadata, load_course does not
\* raise, returns no CourseData and has added a warning to the loader's list.
C15_LoadCourseDegrades ==
    load_ret # None =>
        LET dir == data_dir[load_ret.course_id]
        IN  (~dir.exists \/ dir.metadata \in {"absent", "notjson", "nonobject"}) =>
                /\ ~load_ret.raised
                /\ load_ret.value = None
                /\ Len(loader_warnings) > Len(load_ret.warnings_before)

(***************************************************************************)
(* SpecBatch: evaluate_with_multiple_models (with one model,               *)
(* evaluate_all_courses) over the sorted courses.  evaluate_single_course  *)
(* is reduced to its control flow: the statements before the assessment    *)
(* loop, the loop with its try/except, the statements after it; any of     *)
(* them can raise an Exception.                                            *)
(***************************************************************************)

MaxModels == 2
MaxCourses == 2
MaxBatchAssessments == 2

Batches ==
    [n_models : 1..MaxModels, n_courses : 0..MaxCourses,
     n_assess : [1..MaxCourses -> 0..MaxBatchAssessments]]

\* main.py lines 559-563 and 611-619: the exception of a course is caught
\* and the loop over the courses goes on.
on_course_exception_propagates(c) == [bpc |-> "done", course_idx |-> c]

on_course_exception(c) == [bpc |-> "course_loop", course_idx |-> c + 1]

\* main.py lines 457-462: the exception of an assessment is caught and the
\* loop over the assessments goes on.
on_assessment_exception(a) == [bpc |-> "assess_loop", assess_idx |-> a + 1]

NoteRaised(a) ==
    raised_first' = IF raised_first = {} THEN {<<model_idx, course_idx, a>>}
                    ELSE raised_first

BatchInit ==
    /\ batch \in Batches
    /\ bpc = "start"
    /\ model_idx = 0
    /\ course_idx = 0
    /\ assess_idx = 0
    /\ called_courses = {}
    /\ visited = {}
    /\ raised_first = {}
    /\ StoreIdle
    /\ RunIdle
    /\ ScoreIdle
    /\ EvalIdle
    /\ FnIdle
    /\ LoadIdle
    /\ MetricIdle

\* lines 550-552, 592-594: no courses, the batch returns
BatchNoCourses ==
    /\ bpc = "start"
    /\ batch.n_courses = 0
    /\ bpc' = "done"
    /\ UNCHANGED <<batch, model_idx, course_idx, assess_idx, called_courses, visited,
                   raised_first>>
    /\ UNCHANGED <<files, storeVars, runVars, scoreVars, evalVars, fnVars, loadVars, metricVars>>

\* lines 556, 597-605: the loops start
BatchBegin ==
    /\ bpc = "start"
    /\ batch.n_courses > 0
    /\ bpc' = "course_loop"
    /\ model_idx' = 1
    /\ course_idx' = 1
    /\ UNCHANGED <<batch, assess_idx, called_courses, visited, raised_first>>
    /\ UNCHANGED <<files, storeVars, runVars, scoreVars, evalVars, fnVars, loadVars, metricVars>>

\* lines 557-558, 605-614: evaluate_single_course is called for the course
CallCourse ==
    /\ bpc = "course_loop"
    /\ course_idx <= batch.n_courses
    /\ called_courses' = called_courses \cup {<<model_idx, course_idx>>}
    /\ visited' = {}
    /\ assess_idx' = 0
    /\ bpc' = "setup"
    /\ UNCHANGED <<batch, model_idx, course_idx, raised_first>>
    /\ UNCHANGED <<files, storeVars, runVars, scoreVars, evalVars, fnVars, loadVars, metricVars>>

\* lines 296-365: a statement before the loop raises (the evaluator cannot be
\* created, load_checkpoint raises, ...)
SetupRaises ==
    /\ bpc = "setup"
    /\ NoteRaised(0)
    /\ bpc' = on_course_exception(course_idx).bpc
    /\ course_idx' = on_course_exception(course_idx).course_idx
    /\ UNCHANGED <<batch, model_idx, assess_idx, called_courses, visited>>
    /\ UNCHANGED <<files, storeVars, runVars, scoreVars, evalVars, fnVars, loadVars, metricVars>>

\* lines 306-308, 318-320: the course is not loaded or has no assessments
SetupReturns(loaded) ==
    /\ bpc = "setup"
    /\ ~loaded \/ batch.n_assess[course_idx] = 0
    /\ bpc' = "course_loop"
    /\ course_idx' = course_idx + 1
    /\ UNCHANGED <<batch, model_idx, assess_idx, called_courses, visited, raised_first>>
    /\ UNCHANGED <<files, storeVars, runVars, scoreVars, evalVars, fnVars, loadVars, metricVars>>

\* line 367: the loop over the assessments starts
EnterLoop ==
    /\ bpc = "setup"
    /\ batch.n_assess[course_idx] > 0
    /\ bpc' = "assess_loop"
    /\ assess_idx' = 1
    /\ UNCHANGED <<batch, model_idx, course_idx, called_courses, visited, raised_first>>
    /\ UNCHANGED <<files, storeVars, runVars, scoreVars, evalVars, fnVars, loadVars, metricVars>>

\* lines 369-455: the assessment is skipped as completed, or evaluated and saved
AssessmentDone ==
    /\ bpc = "assess_loop"
    /\ assess_idx <= batch.n_assess[course_idx]
    /\ visited' = visited \cup {assess_idx}
    /\ assess_idx' = assess_idx + 1
    /\ UNCHANGED <<batch, bpc, model_idx, course_idx, called_courses, raised_first>>
    /\ UNCHANGED <<files, storeVars, runVars, scoreVars, evalVars, fnVars, loadVars, metricVars>>

\* lines 379-462: a statement inside the try raises
AssessmentRaises ==
    /\ bpc = "assess_loop"
    /\ assess_idx <= batch.n_assess[course_idx]
    /\ visited' = visited \cup {assess_idx}
    /\ NoteRaised(assess_idx)
    /\ bpc' = on_assessment_exception(assess_idx).bpc
    /\ assess_idx' = on_assessment_exception(assess_idx).assess_idx
    /\ UNCHANGED <<batch, model_idx, course_idx, called_courses>>
    /\ UNCHANGED <<files, storeVars, runVars, scoreVars, evalVars, fnVars, loadVars, metricVars>>

\* line 367: the loop is over
LeaveLoop ==
    /\ bpc = "assess_loop"
    /\ assess_idx > batch.n_assess[course_idx]
    /\ bpc' = "finishing"
    /\ UNCHANGED <<batch, model_idx, course_idx, assess_idx, called_courses, visited,
                   raised_first>>
    /\ UNCHANGED <<files, storeVars, runVars, scoreVars, evalVars, fnVars, loadVars, metricVars>>

\* lines 464-536: the outputs are written, the checkpoint is cleared, the
\* function returns
FinishReturns ==
    /\ bpc = "finishing"
    /\ bpc' = "course_loop"
    /\ course_idx' = course_idx + 1
    /\ UNCHANGED <<batch, model_idx, assess_idx, called_courses, visited, raised_first>>
    /\ UNCHANGED <<files, storeVars, runVars, scoreVars, evalVars, fnVars, loadVars, metricVars>>

\* lines 464-536: a statement after the loop raises
FinishRaises ==
    /\ bpc = "finishing"
    /\ NoteRaised(batch.n_assess[course_idx] + 1)
    /\ bpc' = on_course_exception(course_idx).bpc
    /\ course_idx' = on_course_exception(course_idx).course_idx
    /\ UNCHANGED <<batch, model_idx, assess_idx, called_courses, visited>>
    /\ UNCHANGED <<files, storeVars, runVars, scoreVars, evalVars, fnVars, loadVars, metricVars>>

\* line 597: the courses of the model are over, the next model starts
NextModel ==
    /\ bpc = "course_loop"
    /\ course_idx > batch.n_courses
    /\ model_idx < batch.n_models
    /\ model_idx' = model_idx + 1
    /\ course_idx' = 1
    /\ UNCHANGED <<batch, bpc, assess_idx, called_courses, visited, raised_first>>
    /\ UNCHANGED <<files, storeVars, runVars, scoreVars, evalVars, fnVars, loadVars, metricVars>>

\* lines 565-566, 621-629: the batch is over
BatchEnd ==
    /\ bpc = "course_loop"
    /\ course_idx > batch.n_courses
    /\ model_idx = batch.n_models
    /\ bpc' = "done"
    /\ UNCHANGED <<batch, model_idx, course_idx, assess_idx, called_courses, visited,
                   raised_first>>
    /\ UNCHANGED <<files, storeVars, runVars, scoreVars, evalVars, fnVars, loadVars, metricVars>>

BatchNext ==
    \/ BatchNoCourses
    \/ BatchBegin
    \/ CallCourse
    \/ SetupRaises
    \/ \E loaded \in BOOLEAN : SetupReturns(loaded)
    \/ EnterLoop
    \/ AssessmentDone
    \/ AssessmentRaises
    \/ LeaveLoop
    \/ FinishReturns
    \/ FinishRaises
    \/ NextModel
    \/ BatchEnd

SpecBatch == BatchInit /\ [][BatchNext]_vars

\* C16: an exception raised while an assessment or a course is evaluated does
\* not stop the batch: the loop over the assessments of a course is left only
\* when every assessment of the course has been reached, and when the batch
\* is over evaluate_single_course has been called for every course with
\* every model.
C16_BatchGoesOn ==
    /\ [](bpc = "done" /\ batch.n_courses > 0 =>
            called_courses = (1..batch.n_models) \X (1..batch.n_courses))
    /\ [][(bpc = "assess_loop" /\ bpc' # "assess_loop") =>
            visited = 1..batch.n_assess[course_idx]]_vars

\* The batch of two models and two courses is over, and its first exception
\* was raised by the first assessment of the first course with the first model.
C16_Witness ==
    /\ bpc = "done"
    /\ batch.n_models = 2
    /\ batch.n_courses = 2
    /\ raised_first = {<<1, 1, 1>>}
    /\ called_courses = (1..2) \X (1..2)

\* C17: when the Analysis Service call returns a text with no parseable JSON
\* object in it, evaluate_assessment counts one failed call and no successful
\* call, has the failure among the warnings of the result, and returns a
\* result with the scores of the defaults.
C17_UnparseableCountsAsFailed ==
    (/\ epc \in {"returned", "raised"}
     /\ call_out.outcome.kind = "response"
     /\ call_out.outcome.text # None
     /\ call_out.outcome.text.form = "prose")
    => /\ epc = "returned"
       /\ result.metrics.failed_calls = 1
       /\ result.metrics.successful_calls = 0
       /\ "LLM Analysis Failed" \in Range(result.warnings)
       /\ result.aqs_score = IF ev_in.is_standalone THEN 2000 ELSE 1250

\* C18: the value _extract_json returns is a JSON object for every text: the
\* object of the fenced block when there is one, and the empty object when
\* nothing in the text parses.
C18_ExtractReturnsObject ==
    (/\ epc = "called"
     /\ call_out.outcome.kind = "response"
     /\ call_out.outcome.text # None)
    => /\ IsDict(call_out.combined_result)
       /\ call_out.outcome.text.form = "fenced" =>
              call_out.combined_result = call_out.outcome.text.json
       /\ call_out.outcome.text.form = "prose" =>
              DOMAIN call_out.combined_result = {}

\* C19: for taxonomy scores in 0..100 the taxonomy component that
\* _compute_final_aqs computes is within [0, 100], and it is 100 when all six
\* scores are 100.
C19_TaxonomyComponentInRange ==
    aqs_score # -1 =>
        LET bs == Get(score_in.blooms_result, "blooms_scores", EmptyDict)
            component == blooms_component(score_in.blooms_result)
        IN  (\A l \in DOMAIN bs : bs[l] \in 0..100) =>
                /\ 0 <= component
                /\ component <= 100 * ScoreDen
                /\ (DOMAIN bs = Range(BloomsLevels) /\ \A l \in DOMAIN bs : bs[l] = 100) =>
                       component = 100 * ScoreDen

\* C20: when the response has no taxonomy scores (blooms_scores missing or
\* empty), the taxonomy component that enters the composite score is 50.
C20_NoTaxonomyScoresGive50 ==
    (aqs_score # -1 /\ DOMAIN Get(score_in.blooms_result, "blooms_scores", EmptyDict) = {}) =>
        /\ blooms_component(score_in.blooms_result) = 50 * ScoreDen
        /\ aqs_score = clamp_round(weighted_sum(
               difficulty_component(score_in.difficulty_result), 50 * ScoreDen,
               score_in.course_fit_score, score_in.is_standalone))

\* C21: when the response lacks one of the four difficulty sub-scores, the
\* value reported for it in the result's difficulty_scores is 5, and the
\* reported sub-scores are the ones the difficulty component is computed from.
C21_MissingSubScoreIsFive ==
    epc = "returned" =>
        LET difficulty_result == Get(call_out.combined_result, "difficulty_analysis", EmptyDict)
            missing == Range(DifficultyKeys) \ DOMAIN difficulty_result
        IN  missing # {} =>
                /\ \A k \in missing : result.difficulty_scores[k] = 5
                /\ difficulty_component(result.difficulty_scores)
                       = difficulty_component(difficulty_result)

\* C22: when a run of evaluate_single_course in which no evaluation raised
\* has finished, also a run resumed from a checkpoint, the course totals of
\* tokens and of calls equal the sums, over all assessments of the course, of
\* the totals in the assessments' results (the names being distinct, each
\* assessment has its own result).
C22_CourseTotalsAreSums ==
    (/\ pc = "done"
     /\ failed_evaluations = 0
     /\ Cardinality(Range(assessments)) = Len(assessments)) =>
        /\ Range(assessments) \subseteq DOMAIN result_json
        /\ course_metrics.total_tokens =
               SumSeq([j \in 1..Len(assessments) |-> result_json[assessments[j]].total_tokens])
        /\ course_metrics.total_llm_calls =
               SumSeq([j \in 1..Len(assessments) |-> result_json[assessments[j]].llm_calls])

(***************************************************************************)
(* SpecAssess: _load_course_content and _load_assessments called on one    *)
(* course directory.  A directory name is a sequence of characters; the    *)
(* names are shortened: M1.. are module directories, A stands for a name   *)
(* of the exclude list (such as Assessments), Q1, Q10, Q2 are directories  *)
(* whose name starts with Quiz, x is another directory.                    *)
(***************************************************************************)

\* The code points of the characters used in directory names.
ord == [c \in {"0", "1", "2", "3", "A", "M", "Q", "x"} |->
          CASE c = "0" -> 48 [] c = "1" -> 49 [] c = "2" -> 50 [] c = "3" -> 51
            [] c = "A" -> 65 [] c = "M" -> 77 [] c = "Q" -> 81 [] c = "x" -> 120]

\* Python's order of two strings: by code point, a proper prefix first.
RECURSIVE str_lt(_, _)
str_lt(a, b) ==
    IF b = <<>> THEN FALSE
    ELSE IF a = <<>> THEN TRUE
    ELSE IF ord[a[1]] # ord[b[1]] THEN ord[a[1]] < ord[b[1]]
    ELSE str_lt(Tail(a), Tail(b))

\* sorted() of a set of names
RECURSIVE sorted(_)
sorted(S) ==
    IF S = {} THEN <<>>
    ELSE LET first == CHOOSE a \in S : \A b \in S \ {a} : str_lt(a, b)
         IN  <<first>> \o sorted(S \ {first})

\* data_loader.py lines 193 and 352
exclude_folders == {<<"A">>}

QuizDirNames == {<<"Q", "1">>, <<"Q", "1", "0">>, <<"Q", "2">>, <<"x">>}

\* What the course directory holds: the directories of Course/, the
\* directories of Course/Content/, Assessments/Final_Assessment (absent, or
\* with an assessment file that parses or does not), and the directories of
\* Assessments/Practice_Quizzes with, for each, whether its file parses.
AssessDirs ==
    [course : SUBSET {<<"M", "1">>, <<"M", "2">>, <<"A">>},
     content : SUBSET {<<"M", "2">>, <<"M", "3">>, <<"A">>},
     final : {"absent", "parses", "fails"},
     quizzes : UNION {[D -> BOOLEAN] : D \in SUBSET QuizDirNames}]

\* _load_course_content lines 196-249: the keys of module_contents, each
\* with the ModuleContent stored for it
module_contents(course_path) ==
    [d \in {c \in course_path.course \cup course_path.content : c \notin exclude_folders}
        |-> [module_name |-> d]]

\* _load_assessments lines 355-369: Course/ directories outside the exclude
\* list in sorted order, then the Course/Content/ directories not yet listed
module_dirs(course_path) ==
    LET top == {d \in course_path.course : d \notin exclude_folders}
    IN  sorted(top) \o sorted(course_path.content \ top)

\* line 390: d.name.startswith("Quiz")
startswith_Quiz(name) == name # <<>> /\ name[1] = "Q"

\* line 392, counting only the directories that loaded
quiz_index_among_loaded(n, quiz_dirs, parses) ==
    1 + Cardinality({k \in 1..(n - 1) : parses[quiz_dirs[k]]})

\* line 392: enumerate(quiz_dirs) gives a directory its position in the
\* sorted list (from 1 here, from 0 in the code)
quiz_index(n, quiz_dirs, parses) == n

\* lines 393-409: the assessment made from the n-th Quiz directory
practice_assessment(course_path, course_content, quiz_dirs, n) ==
    LET mods == module_dirs(course_path)
        idx == quiz_index(n, quiz_dirs, course_path.quizzes)
        mapped == idx <= Len(mods)
    IN  [dir |-> quiz_dirs[n],
         is_final_assessment |-> FALSE,
         associated_module |-> IF mapped THEN mods[idx] ELSE <<>>,
         module_content |-> IF mapped /\ mods[idx] \in DOMAIN course_content
                            THEN course_content[mods[idx]] ELSE None]

\* lines 377-385: the assessment made from Final_Assessment
final_assessment ==
    [dir |-> <<>>, is_final_assessment |-> TRUE, associated_module |-> <<>>,
     module_content |-> None]

\* _load_assessments lines 371-411: the list returned
load_assessments(course_path, course_content) ==
    LET quiz_dirs == sorted({d \in DOMAIN course_path.quizzes : startswith_Quiz(d)})
        all == [n \in 1..Len(quiz_dirs) |->
                   practice_assessment(course_path, course_content, quiz_dirs, n)]
        loaded(a) == course_path.quizzes[a.dir]
    IN  (IF course_path.final = "parses" THEN <<final_assessment>> ELSE <<>>)
            \o SelectSeq(all, loaded)

AssessInit ==
    /\ fn_in \in AssessDirs
    /\ fn_out = None
    /\ StoreIdle
    /\ RunIdle
    /\ ScoreIdle
    /\ EvalIdle
    /\ LoadIdle
    /\ BatchIdle
    /\ MetricIdle

\* load_course lines 134-144: the content, then the assessments
LoadAssessments ==
    /\ fn_out = None
    /\ LET content == module_contents(fn_in)
       IN  fn_out' = [module_contents |-> content,
                      assessments |-> load_assessments(fn_in, content)]
    /\ UNCHANGED fn_in
    /\ UNCHANGED <<files, storeVars, runVars, scoreVars, evalVars, loadVars, batchVars, metricVars>>

AssessNext == LoadAssessments

SpecAssess == AssessInit /\ [][AssessNext]_vars

\* C23: the Quiz directory that is the i-th in the lexical order of the
\* directory names, directories that fail to load counted, gets the i-th
\* module directory as associated_module; a Quiz directory whose index is
\* beyond the number of module directories gets an empty associated_module
\* and no module_content.
C23_QuizMapsToModuleByIndex ==
    fn_out # None =>
        LET quizzes == {d \in DOMAIN fn_in.quizzes : d[1] = "Q"}
            index(q) == 1 + Cardinality({d \in quizzes : str_lt(d, q)})
            mods == module_dirs(fn_in)
        IN  \A n \in DOMAIN fn_out.assessments :
               LET a == fn_out.assessments[n]
               IN  ~a.is_final_assessment =>
                      /\ a.dir \in quizzes
                      /\ index(a.dir) <= Len(mods) =>
                            a.associated_module = mods[index(a.dir)]
                      /\ index(a.dir) > Len(mods) =>
                            /\ a.associated_module = <<>>
                            /\ a.module_content = None

\* Three Quiz directories of which the first does not load and two module
\* directories: Q10 is second and gets M2, Q2 is third and gets no module.
C23_Witness ==
    /\ fn_out # None
    /\ fn_in.quizzes = [d \in {<<"Q", "1">>, <<"Q", "1", "0">>, <<"Q", "2">>} |-> d # <<"Q", "1">>]
    /\ fn_in.course = {<<"M", "1">>, <<"M", "2">>}
    /\ fn_in.content = {}
    /\ fn_in.final = "absent"
    /\ Len(fn_out.assessments) = 2
    /\ fn_out.assessments[1].dir = <<"Q", "1", "0">>
    /\ fn_out.assessments[1].associated_module = <<"M", "2">>
    /\ fn_out.assessments[2].dir = <<"Q", "2">>
    /\ fn_out.assessments[2].associated_module = <<>>

\* C24: in what load_course returns, an assessment's associated_module is
\* empty exactly when the assessment is the final assessment, and every
\* non-empty associated_module is a key of module_contents.
C24_ModuleEmptyIffFinal ==
    fn_out # None =>
        \A n \in DOMAIN fn_out.assessments :
           LET a == fn_out.assessments[n]
           IN  /\ (a.associated_module = <<>>) <=> a.is_final_assessment
               /\ a.associated_module # <<>> =>
                     a.associated_module \in DOMAIN fn_out.module_contents

\* C25: the content sent with the call is the full-course summary for a
\* final assessment; for a module assessment whose module has text it is the
\* module's text only, cut to the budget plus the truncation marker; for a
\* module assessment without module text it is the full-course summary and
\* the result carries a note of the fallback among its warnings or flags.
C25_ContentScopeAndFallbackNote ==
    epc = "returned" =>
        LET a == ev_in.assessment
            mc == a.module_content
            has_text == mc # None /\ (mc.transcript > 0 \/ mc.pdf_text > 0)
            notes == Range(result.warnings) \cup Range(result.confidence_flags)
        IN  /\ a.is_final_assessment => result.content.scope = "full"
            /\ (~a.is_final_assessment /\ has_text) =>
                  /\ result.content.scope = "module"
                  /\ result.content.length <= ModuleContentBudget + TruncationMarkerLen
                  /\ result.content.truncated =>
                        result.content.length = ModuleContentBudget + TruncationMarkerLen
            /\ (~a.is_final_assessment /\ ~has_text) =>
                  /\ result.content.scope = "full"
                  /\ "Full Course (module content not available)" \in notes

\* C26: once _check_edge_cases has run, the result has the low-question-count
\* flag when the number of questions parsed is below the threshold, and the
\* missing-question-details warning and flag when no question was parsed;
\* the evaluation of such an assessment goes on to the analysis call.
C26_EdgeCaseFlagsByParsedCount ==
    epc \in {"ready", "called", "returned"} =>
        LET parsed == ev_in.assessment.questions
        IN  /\ parsed < FewQuestionsThreshold =>
                  "Low question count" \in Range(result.confidence_flags)
            /\ parsed = 0 =>
                  /\ "No question details available" \in Range(result.warnings)
                  /\ "Missing question details" \in Range(result.confidence_flags)
            /\ (parsed < FewQuestionsThreshold /\ epc # "ready") => service_calls = 1

\* C27: every name in the completed list of the stored checkpoint is the
\* name of an assessment whose Analysis Service call has succeeded; an
\* assessment whose call failed is not listed.
C27_CompletedOnlyAfterSuccessfulCall ==
    StoredCheckpoint # None =>
        \A name \in Range(StoredCheckpoint.completed_assessments) :
            \E j \in returned : assessments[j] = name

\* C28: when the loop of a run that found no checkpoint is over, every
\* assessment of the course's list has been evaluated in the run, once,
\* whatever the names are.
C28_FreshRunEvaluatesEveryAssessment ==
    (pc \in {"summary", "clearing", "done"} /\ checkpoint = None) =>
        /\ called = 1..Len(assessments)
        /\ skipped = {}

\* C29: in every state, also after a crash anywhere in evaluate_single_course,
\* every name in the completed list of the stored checkpoint has its
\* per-assessment result file written.
C29_ResultFileBeforeCheckpoint ==
    StoredCheckpoint # None =>
        Range(StoredCheckpoint.completed_assessments) \subseteq result_files

\* The process died right after its second save: the stored checkpoint lists
\* two names and both result files are there.
C29_Witness ==
    /\ pc = "crashed"
    /\ StoredCheckpoint # None
    /\ Len(StoredCheckpoint.completed_assessments) = 2
    /\ Range(StoredCheckpoint.completed_assessments) = {"A", "B"}
    /\ result_files = {"A", "B"}

\* C30: when a run has finished in which no evaluation raised, so that every
\* assessment of the course (the names being distinct) was evaluated in the
\* run or skipped as completed in an earlier, checkpointed run, the combined
\* result file the run wrote has one entry for every assessment of the
\* course and its total_assessments is the number of assessments.
C30_CombinedFileCoversCourse ==
    (/\ pc = "done"
     /\ failed_evaluations = 0
     /\ Cardinality(Range(assessments)) = Len(assessments)) =>
        /\ combined_file # None
        /\ combined_file.total_assessments = Len(assessments)
        /\ Range(combined_file.assessments) = Range(assessments)

====
